---- MODULE Spec2Model ----
(***************************************************************************)
(* The lobby store (tables lobbies and lobby_members) of sodabot.py, the   *)
(* button handlers of LobbyView and JoinSelectionView, lobby creation, the *)
(* reset command, the panel, the reconciliation of on_ready and the        *)
(* restart of the process, as cooperative tasks of one asyncio event loop. *)
(*                                                                         *)
(* A step of a handler is the code between two suspension points (await):  *)
(* the sqlite calls are synchronous, so the store reads and writes of one  *)
(* step never interleave with another handler, while any other handler may *)
(* run at an await.  Consecutive awaits with no store access between them  *)
(* are one suspension.  A suspended handler keeps only the locals it still *)
(* reads; the notifications sent at the very end of a handler              *)
(* (channel.send, followup.send) touch neither the store nor the lobby     *)
(* message and are part of its last step.                                  *)
(*                                                                         *)
(* Platform calls wrapped in try/except either take effect or fail and are *)
(* swallowed; the defer of a button handler stands outside every try and   *)
(* ends the handler when it fails.  A button of a lobby message can be     *)
(* pressed while the message carries the view (HasView).                   *)
(***************************************************************************)
EXTENDS Integers, FiniteSets, Bags, TLC

\* ------------------------------------------------------------------ bounds
\* Users 1..MaxUsers press buttons; user 1 creates the lobbies.  Capacity 2
\* with three users lets a third join attempt meet a full lobby.
MaxUsers == 3
MaxLobbies == 1
MaxTasks == 2
MaxViews == 1
MaxModelCapacity == 2
\* joined_at takes the instants 0..MaxTime
MaxTime == 1
\* lobbies of a store taken over at rest
MaxRestLobbies == 2
\* lines of the panel that fit into one field of its embed
MaxFieldLines == 1

\* ------------------------------------------------------- program constants
\* "if capacity < 2 or capacity > 20" in CreateLobbyModal.on_submit
MinCapacity == 2
MaxCapacity == 20

NULL == "NULL"
\* MAPS[0], the only map whose joins carry positions and a tier
RIFT == "rift"
\* MAPS[1]
ARAM == "aram"
MAPS == {RIFT, ARAM}
POSITIONS == <<"top", "jungle">>
\* interaction.channel_id: the text channel the lobby messages are sent to
TextChannel == 1
\* forum_post_id = None, FORUM_CHANNEL_ID not being set
NoForumPost == 0
\* start_at_iso of the date and time the host has selected
StartAt == 1
TIERS == {"gold"}

Users == 1..MaxUsers
Hosts == {1}
LobbyIds == 1..MaxLobbies
Capacities == {c \in MinCapacity..MaxCapacity : c <= MaxModelCapacity}
\* values of iso_kst(now_kst())
Times == 0..MaxTime
RestIds == 1..MaxRestLobbies
Statuses == {"open", "closed", "started", "cancelled"}

VARIABLES
    lobbies,        \* table lobbies: lobby_message_id -> row
    lobby_members,  \* table lobby_members: set of rows
    messages,       \* lobby messages on the platform: id -> [view, embed]
    panel,          \* fields of the panel message, each a set of lines
    selections,     \* live JoinSelectionView objects
    tasks,          \* bag of the handler coroutines in flight
    race,           \* observer: outcomes of the join attempts of a race
    watch           \* observer: is message content recorded, and which
                    \* lobby messages a platform call has failed on

vars == <<lobbies, lobby_members, messages, panel, selections, tasks, race, watch>>

\* --------------------------------------------------------------- the store
\* The value of "lobby" when db_get_lobby finds no row (None).
NoRow == [lobby_message_id |-> 0, channel_id |-> 0, forum_post_id |-> 0, host_id |-> 0,
          capacity |-> 0, map_name |-> NULL, start_at |-> 0, status |-> NULL]

\* A lookup that answers, for an id without row, with an open lobby of the
\* smallest capacity.
db_get_lobby_default(lobby_message_id) ==
    IF lobby_message_id \in DOMAIN lobbies THEN lobbies[lobby_message_id]
    ELSE [NoRow EXCEPT !.lobby_message_id = lobby_message_id, !.capacity = MinCapacity,
                       !.map_name = ARAM, !.status = "open"]

\* SELECT * FROM lobbies WHERE lobby_message_id = ?; fetchone()
db_get_lobby(lobby_message_id) ==
    IF lobby_message_id \in DOMAIN lobbies THEN lobbies[lobby_message_id] ELSE NoRow

\* A cancellation that deletes the row (DELETE FROM lobbies WHERE ...).
db_update_lobby_status_delete(tbl, lobby_message_id, status) ==
    IF status = "cancelled"
    THEN [l \in DOMAIN tbl \ {lobby_message_id} |-> tbl[l]]
    ELSE [l \in DOMAIN tbl |->
             IF l = lobby_message_id THEN [tbl[l] EXCEPT !.status = status] ELSE tbl[l]]

\* An update that moves the status one step on instead of setting it.
db_update_lobby_status_step(tbl, lobby_message_id, status) ==
    [l \in DOMAIN tbl |->
        IF l = lobby_message_id
        THEN [tbl[l] EXCEPT !.status = IF @ = "open" THEN "closed"
                                       ELSE IF @ = "closed" THEN "started"
                                       ELSE "cancelled"]
        ELSE tbl[l]]

\* REPLACE INTO lobbies (lobby_message_id, status): the other columns of the
\* row are reset.
db_update_lobby_status_replace(tbl, lobby_message_id, status) ==
    [l \in DOMAIN tbl |->
        IF l = lobby_message_id
        THEN [NoRow EXCEPT !.lobby_message_id = lobby_message_id, !.status = status]
        ELSE tbl[l]]

\* UPDATE lobbies SET status = ? without the WHERE clause.
db_update_lobby_status_all(tbl, lobby_message_id, status) ==
    [l \in DOMAIN tbl |-> [tbl[l] EXCEPT !.status = status]]

\* An UPDATE that only writes rows whose status is open.
db_update_lobby_status_from_open(tbl, lobby_message_id, status) ==
    [l \in DOMAIN tbl |->
        IF l = lobby_message_id /\ tbl[l].status = "open"
        THEN [tbl[l] EXCEPT !.status = status] ELSE tbl[l]]

db_update_lobby_status(tbl, lobby_message_id, status) ==
    [l \in DOMAIN tbl |->
        IF l = lobby_message_id THEN [tbl[l] EXCEPT !.status = status] ELSE tbl[l]]

\* INSERT INTO lobbies (...) VALUES (...), with status = "open".
db_create_lobby(tbl, lobby_message_id, channel_id, host_id, capacity, map_name, start_at_iso, forum_post_id) ==
    [l \in DOMAIN tbl \cup {lobby_message_id} |->
        IF l = lobby_message_id
        THEN [lobby_message_id |-> lobby_message_id, channel_id |-> channel_id,
              forum_post_id |-> forum_post_id, host_id |-> host_id,
              capacity |-> capacity, map_name |-> map_name, start_at |-> start_at_iso,
              status |-> "open"]
        ELSE tbl[l]]

MembersOf(rows, lobby_message_id) ==
    {m \in rows : m.lobby_message_id = lobby_message_id}

db_count_members(rows, lobby_message_id) ==
    Cardinality(MembersOf(rows, lobby_message_id))

db_is_member(rows, lobby_message_id, user_id) ==
    \E m \in rows : m.lobby_message_id = lobby_message_id /\ m.user_id = user_id

\* db_try_add_member without the "current_count >= capacity" check.
db_try_add_member_nocap(rows, lobby_message_id, user_id, position1, position2, tier, capacity, now) ==
    IF db_is_member(rows, lobby_message_id, user_id)
    THEN [status |-> "already", count |-> db_count_members(rows, lobby_message_id),
          rows |-> rows]
    ELSE [status |-> "added", count |-> db_count_members(rows, lobby_message_id) + 1,
          rows |-> rows \cup {[lobby_message_id |-> lobby_message_id, user_id |-> user_id,
                               position1 |-> position1, position2 |-> position2,
                               tier |-> tier, joined_at |-> now]}]

\* db_try_add_member whose existence check replaces the row it finds.
db_try_add_member_replace(rows, lobby_message_id, user_id, position1, position2, tier, capacity, now) ==
    IF db_is_member(rows, lobby_message_id, user_id)
    THEN [status |-> "already", count |-> db_count_members(rows, lobby_message_id),
          rows |-> {m \in rows : ~(m.lobby_message_id = lobby_message_id /\ m.user_id = user_id)}
                     \cup {[lobby_message_id |-> lobby_message_id, user_id |-> user_id,
                            position1 |-> position1, position2 |-> position2,
                            tier |-> tier, joined_at |-> now]}]
    ELSE IF db_count_members(rows, lobby_message_id) >= capacity
    THEN [status |-> "full", count |-> db_count_members(rows, lobby_message_id),
          rows |-> rows]
    ELSE [status |-> "added", count |-> db_count_members(rows, lobby_message_id) + 1,
          rows |-> rows \cup {[lobby_message_id |-> lobby_message_id, user_id |-> user_id,
                               position1 |-> position1, position2 |-> position2,
                               tier |-> tier, joined_at |-> now]}]

\* db_try_add_member without the existence check.
db_try_add_member_noexist(rows, lobby_message_id, user_id, position1, position2, tier, capacity, now) ==
    IF db_count_members(rows, lobby_message_id) >= capacity
    THEN [status |-> "full", count |-> db_count_members(rows, lobby_message_id),
          rows |-> rows]
    ELSE [status |-> "added", count |-> db_count_members(rows, lobby_message_id) + 1,
          rows |-> rows \cup {[lobby_message_id |-> lobby_message_id, user_id |-> user_id,
                               position1 |-> position1, position2 |-> position2,
                               tier |-> tier, joined_at |-> now]}]

\* db_try_add_member returning, on "added", the count it read before the
\* INSERT.
db_try_add_member_before(rows, lobby_message_id, user_id, position1, position2, tier, capacity, now) ==
    IF db_is_member(rows, lobby_message_id, user_id)
    THEN [status |-> "already", count |-> db_count_members(rows, lobby_message_id),
          rows |-> rows]
    ELSE IF db_count_members(rows, lobby_message_id) >= capacity
    THEN [status |-> "full", count |-> db_count_members(rows, lobby_message_id),
          rows |-> rows]
    ELSE [status |-> "added", count |-> db_count_members(rows, lobby_message_id),
          rows |-> rows \cup {[lobby_message_id |-> lobby_message_id, user_id |-> user_id,
                               position1 |-> position1, position2 |-> position2,
                               tier |-> tier, joined_at |-> now]}]

\* BEGIN IMMEDIATE; existence check; count check; INSERT; COMMIT.
db_try_add_member(rows, lobby_message_id, user_id, position1, position2, tier, capacity, now) ==
    IF db_is_member(rows, lobby_message_id, user_id)
    THEN [status |-> "already", count |-> db_count_members(rows, lobby_message_id),
          rows |-> rows]
    ELSE IF db_count_members(rows, lobby_message_id) >= capacity
    THEN [status |-> "full", count |-> db_count_members(rows, lobby_message_id),
          rows |-> rows]
    ELSE [status |-> "added", count |-> db_count_members(rows, lobby_message_id) + 1,
          rows |-> rows \cup {[lobby_message_id |-> lobby_message_id, user_id |-> user_id,
                               position1 |-> position1, position2 |-> position2,
                               tier |-> tier, joined_at |-> now]}]

\* DELETE FROM lobby_members WHERE lobby_message_id = ?, for every user.
db_remove_member_lobby(rows, lobby_message_id, user_id) ==
    {m \in rows : m.lobby_message_id # lobby_message_id}

\* DELETE FROM lobby_members WHERE lobby_message_id = ? AND user_id = ?
db_remove_member(rows, lobby_message_id, user_id) ==
    {m \in rows : ~(m.lobby_message_id = lobby_message_id /\ m.user_id = user_id)}

\* "return cur.rowcount": the number of rows the DELETE removed.
db_remove_member_rowcount(rows, lobby_message_id, user_id) ==
    Cardinality(rows) - Cardinality(db_remove_member(rows, lobby_message_id, user_id))

db_list_active_lobbies ==
    {l \in DOMAIN lobbies : lobbies[l].status \in {"open", "closed", "started"}}

\* A panel query that also returns the lobbies that are full.
db_list_open_lobbies_closed ==
    {l \in DOMAIN lobbies : lobbies[l].status \in {"open", "closed"}}

\* WHERE status = 'open'
db_list_open_lobbies == {l \in DOMAIN lobbies : lobbies[l].status = "open"}

db_list_all_lobbies == DOMAIN lobbies

db_clear_all_members == {}

\* ------------------------------------------------------- the lobby message
\* temp_embed, the content of the lobby message until its first edit.
TempEmbed == [status |-> NULL, count |-> 0, capacity |-> 0, map_name |-> NULL, lines |-> {}]

\* A rendering that ignores the row.
lobby_embed_blank(lobby_row) == TempEmbed

\* The content rendered from a lobbies row and the rows db_list_members reads
\* at that moment: status, "count / capacity", map and one line per member,
\* with positions and tier on the rift map only.
lobby_embed_from_db(lobby_row) ==
    LET members == MembersOf(lobby_members, lobby_row.lobby_message_id) IN
    [status |-> lobby_row.status,
     count |-> Cardinality(members),
     capacity |-> lobby_row.capacity,
     map_name |-> lobby_row.map_name,
     lines |-> {[user_id |-> m.user_id,
                 position1 |-> IF lobby_row.map_name = RIFT THEN m.position1 ELSE NULL,
                 position2 |-> IF lobby_row.map_name = RIFT THEN m.position2 ELSE NULL,
                 tier |-> IF lobby_row.map_name = RIFT THEN m.tier ELSE NULL] : m \in members}]

\* ---------------------------------------- observer of the message content
\* The content of lobby messages is recorded in the specifications that read
\* it (watch.on); elsewhere every content is TempEmbed and the locals that
\* only feed a content are dropped.  The lobby messages a platform call has
\* failed on are recorded where the content is, or on their own
\* (watch.calls); under watch.all a failed call on the panel message and a
\* failed defer are recorded as message 0, and so is, where the lobby
\* messages are not told apart, a failed call on a lobby message.
NoWatch == [on |-> FALSE, calls |-> FALSE, all |-> FALSE, failed |-> {}, edited |-> {}]

\* A platform call that concerns no lobby message has failed.
CallFailed == IF watch.all THEN [watch EXCEPT !.failed = @ \cup {0}] ELSE watch

Shown(embed) == IF watch.on THEN embed ELSE TempEmbed

Kept(lobby_row) ==
    IF watch.on THEN lobby_row
    ELSE [NoRow EXCEPT !.lobby_message_id = lobby_row.lobby_message_id]

\* A fetch of the message of lobby l succeeded (ok) or returned nothing.
Called(l, ok) ==
    watch' = IF (watch.on \/ watch.calls) /\ ~ok
             THEN [watch EXCEPT !.failed = @ \cup {l}]
             ELSE IF ~ok THEN CallFailed ELSE watch

\* An edit of the message of lobby l took effect (ok) or raised.
Edited(l, ok) ==
    watch' = IF ok
             THEN IF watch.on THEN [watch EXCEPT !.edited = @ \cup {l}] ELSE watch
             ELSE IF watch.on \/ watch.calls THEN [watch EXCEPT !.failed = @ \cup {l}]
             ELSE CallFailed

\* ------------------------------------------------------------------- tasks
\* A suspended handler: where it resumes (pc) and the locals it still reads.
NoTask == [kind |-> "", pc |-> "", lobby_message_id |-> 0, uid |-> 0,
           lobby |-> NoRow, view |-> FALSE, result |-> "", embed |-> {}, pending |-> {},
           msg_embed |-> TempEmbed, lobbies |-> {}, pass |-> 0]

Task(kind, pc, lobby_message_id, uid, lobby) ==
    [NoTask EXCEPT !.kind = kind, !.pc = pc, !.lobby_message_id = lobby_message_id,
                   !.uid = uid, !.lobby = lobby]

\* Suspended in send_ephemeral_and_delete(interaction, <rejection message>).
Rejected(kind, result) == [NoTask EXCEPT !.kind = kind, !.pc = "reject", !.result = result]

\* Suspended in message.edit(embed=..., view=...), the embed already built.
Editing(lobby_message_id, view, embed) ==
    [NoTask EXCEPT !.pc = "edit", !.lobby_message_id = lobby_message_id, !.view = view,
                   !.msg_embed = Shown(embed)]

InFlight == BagToSet(tasks)

NoTaskInFlight == tasks = EmptyBag

Spawn(tk) ==
    /\ BagCardinality(tasks) < MaxTasks
    /\ tasks' = tasks (+) SetToBag({tk})

Resume(tk, next) == tasks' = (tasks (-) SetToBag({tk})) (+) SetToBag({next})

Return(tk) == tasks' = tasks (-) SetToBag({tk})

\* A button of the lobby message can be pressed while the message carries it.
HasView(lobby_message_id) ==
    lobby_message_id \in DOMAIN messages /\ messages[lobby_message_id].view

\* A host check that lets every user through.
is_host_anyone(uid, lobby) == TRUE

is_host(uid, lobby) == uid = lobby.host_id

\* The capacity check of the join handlers with ">" for ">=".
CloseIfFull_gt(tbl, lobby_message_id, member_count, capacity) ==
    IF member_count > capacity
    THEN db_update_lobby_status(tbl, lobby_message_id, "closed")
    ELSE tbl

\* "if member_count >= capacity: db_update_lobby_status(lobby_id, 'closed')"
CloseIfFull(tbl, lobby_message_id, member_count, capacity) ==
    IF member_count >= capacity
    THEN db_update_lobby_status(tbl, lobby_message_id, "closed")
    ELSE tbl

\* ORDER BY created_at DESC: the lobby created last comes first.
Latest(rows) ==
    CHOOSE lobby \in rows : \A other \in rows : other.lobby_message_id <= lobby.lobby_message_id

\* The line of a lobby in the panel: lobby, "member_count/cap".
PanelLine(lobby) ==
    <<lobby.lobby_message_id, db_count_members(lobby_members, lobby.lobby_message_id),
      lobby.capacity>>

\* The lines are packed, in order, into fields of at most 1024 characters,
\* here MaxFieldLines lines: a line that does not fit any more closes the
\* current field and opens the next.
RECURSIVE chunks(_, _)
chunks(rows, current) ==
    IF rows = {}
    THEN IF current # {} THEN {current} ELSE {}
    ELSE LET lobby == Latest(rows)
             next_value == current \cup {PanelLine(lobby)}
         IN IF Cardinality(next_value) > MaxFieldLines
            THEN (IF current # {} THEN {current} ELSE {})
                     \cup chunks(rows \ {lobby}, {PanelLine(lobby)})
            ELSE chunks(rows \ {lobby}, next_value)

\* The fields of the panel embed, each a set of lines; no field but the
\* placeholder, here no field, when no lobby is open.
build_lobby_panel_embed ==
    chunks({lobbies[l] : l \in db_list_open_lobbies}, {})

\* ------------------------------------------------- observer of a join race
\* race.out[u] is the outcome of racer u's one join attempt; outside a race
\* (race.on = FALSE) nothing is recorded.
NoRace == [on |-> FALSE, n0 |-> 0, out |-> <<>>]

Racers == DOMAIN race.out

MayAttempt(u) == race.on => (u \in Racers /\ race.out[u] = "todo")

Outcome(u, result) ==
    race' = IF race.on /\ u \in Racers THEN [race EXCEPT !.out[u] = result] ELSE race

Init ==
    /\ lobbies = <<>>
    /\ lobby_members = {}
    /\ messages = <<>>
    /\ panel = {}
    /\ selections = {}
    /\ tasks = EmptyBag
    /\ race = NoRace
    /\ watch = NoWatch

\* ------------------------------------------------- the end of every handler
\* send_ephemeral_and_delete: the rejection message is sent and the handler
\* returns.
Reject(tk) ==
    /\ tk.pc = "reject"
    /\ Return(tk)
    /\ UNCHANGED <<lobbies, lobby_members, messages, panel, selections, race, watch>>

\* "await interaction.response.defer(ephemeral=True)" stands outside every
\* try of the button handlers: when the call fails, the exception leaves
\* the handler, which ends there, before the store write of join, leave,
\* close, start and cancel and after the store write of confirm.
defer_raises(tk) ==
    /\ tk.pc \in {"join_add", "leave_remove", "close_update", "start_update",
                  "cancel_update", "confirm_edit"}
    /\ Return(tk)
    /\ watch' = CallFailed
    /\ UNCHANGED <<lobbies, lobby_members, messages, panel, selections, race>>

\* message.edit(embed=..., view=...) inside try/except: the edit reaches the
\* platform, or it raises and the handler goes on to update_lobby_panel.
EditMessage(tk) ==
    /\ tk.pc = "edit"
    /\ \E ok \in BOOLEAN :
        /\ messages' = IF ok /\ tk.lobby_message_id \in DOMAIN messages
                       THEN [messages EXCEPT ![tk.lobby_message_id] =
                                                 [view |-> tk.view, embed |-> tk.msg_embed]]
                       ELSE messages
        /\ Edited(tk.lobby_message_id, ok /\ tk.lobby_message_id \in DOMAIN messages)
    /\ Resume(tk, [NoTask EXCEPT !.pc = "panel_find"])
    /\ UNCHANGED <<lobbies, lobby_members, panel, selections, race>>

\* update_lobby_panel: the panel message is looked up (await channel.history),
\* then its embed is built from the store.
PanelFind(tk) ==
    /\ tk.pc = "panel_find"
    /\ Resume(tk, [tk EXCEPT !.pc = "panel_edit", !.embed = build_lobby_panel_embed])
    /\ UNCHANGED <<lobbies, lobby_members, messages, panel, selections, race, watch>>

\* update_lobby_panel: await panel_msg.edit(embed=embed), inside try/except.
PanelEdit(tk) ==
    /\ tk.pc = "panel_edit"
    /\ \E ok \in BOOLEAN :
        /\ panel' = IF ok THEN tk.embed ELSE panel
        /\ watch' = IF ok THEN watch ELSE CallFailed
    /\ Return(tk)
    /\ UNCHANGED <<lobbies, lobby_members, messages, selections, race>>

\* ------------------------------------------------------ LobbyView.join_button
JoinSelectionView(lobby_message_id, uid) ==
    [lobby_message_id |-> lobby_message_id, uid |-> uid, selected_tier |-> NULL,
     position1 |-> NULL, position2 |-> NULL]

join_button(l, uid) ==
    /\ HasView(l)
    /\ MayAttempt(uid)
    /\ LET lobby == db_get_lobby(l) IN
       IF lobby = NoRow
       THEN /\ Spawn(Rejected("join", "nolobby"))
            /\ Outcome(uid, "rejected")
            /\ UNCHANGED selections
       ELSE IF lobby.status # "open"
       THEN /\ Spawn(Rejected("join", "notopen"))
            /\ Outcome(uid, "rejected")
            /\ UNCHANGED selections
       ELSE IF lobby.map_name # RIFT
       THEN /\ Spawn(Task("join", "join_add", l, uid, lobby))
            /\ Outcome(uid, "pending")
            /\ UNCHANGED selections
       ELSE /\ Cardinality(selections \cup {JoinSelectionView(l, uid)}) <= MaxViews
            /\ selections' = selections \cup {JoinSelectionView(l, uid)}
            /\ UNCHANGED <<tasks, race>>
    /\ UNCHANGED <<lobbies, lobby_members, messages, panel, watch>>

\* join_button after "await interaction.response.defer": the direct join.
join_add(tk) ==
    /\ tk.pc = "join_add"
    /\ \E now \in Times :
       LET lobby_id == tk.lobby.lobby_message_id
           r == db_try_add_member(lobby_members, lobby_id, tk.uid,
                                  NULL, NULL, NULL, tk.lobby.capacity, now)
       IN /\ lobby_members' = r.rows
          /\ Outcome(tk.uid, r.status)
          /\ IF r.status \in {"already", "full"}
             THEN /\ Resume(tk, Rejected("join", r.status))
                  /\ UNCHANGED lobbies
             ELSE /\ lobbies' = CloseIfFull(lobbies, lobby_id, r.count, tk.lobby.capacity)
                  /\ Resume(tk, Editing(lobby_id, TRUE,
                                        lobby_embed_from_db(db_get_lobby(lobby_id))'))
    /\ UNCHANGED <<messages, panel, selections, watch>>

\* --------------------------------------------------------- JoinSelectionView
TierJoinSelect(v, tier) ==
    /\ v \in selections
    /\ selections' = (selections \ {v}) \cup {[v EXCEPT !.selected_tier = tier]}
    /\ UNCHANGED <<lobbies, lobby_members, messages, panel, tasks, race, watch>>

PositionJoinSelect(v) ==
    /\ v \in selections
    /\ selections' = (selections \ {v}) \cup
                        {[v EXCEPT !.position1 = POSITIONS[1], !.position2 = POSITIONS[2]]}
    /\ UNCHANGED <<lobbies, lobby_members, messages, panel, tasks, race, watch>>

\* timeout=180: the view stops answering.
ViewTimeout(v) ==
    /\ v \in selections
    /\ selections' = selections \ {v}
    /\ UNCHANGED <<lobbies, lobby_members, messages, panel, tasks, race, watch>>

\* A readiness check that looks at the tier only.
ready_tier_only(v) == v.selected_tier # NULL

\* "self.selected_tier is not None and self.selected_position is not None"
ready(v) == v.selected_tier # NULL /\ v.position1 # NULL

confirm(v) ==
    /\ v \in selections
    /\ MayAttempt(v.uid)
    /\ \E now \in Times :
       LET l == v.lobby_message_id
           lobby == db_get_lobby(l)
           r == db_try_add_member(lobby_members, l, v.uid, v.position1, v.position2,
                                  v.selected_tier, lobby.capacity, now)
       IN IF lobby = NoRow
          THEN /\ Spawn(Rejected("confirm", "nolobby"))
               /\ Outcome(v.uid, "rejected")
               /\ UNCHANGED <<lobbies, lobby_members>>
          ELSE IF lobby.status # "open"
          THEN /\ Spawn(Rejected("confirm", "notopen"))
               /\ Outcome(v.uid, "rejected")
               /\ UNCHANGED <<lobbies, lobby_members>>
          ELSE IF ~ready(v)
          THEN /\ Spawn(Rejected("confirm", "notready"))
               /\ UNCHANGED <<lobbies, lobby_members, race>>
          ELSE /\ lobby_members' = r.rows
               /\ Outcome(v.uid, r.status)
               /\ IF r.status \in {"already", "full"}
                  THEN /\ Spawn(Rejected("confirm", r.status))
                       /\ UNCHANGED lobbies
                  ELSE /\ lobbies' = CloseIfFull(lobbies, l, r.count, lobby.capacity)
                       /\ Spawn([NoTask EXCEPT !.kind = "confirm", !.pc = "confirm_edit",
                                               !.lobby_message_id = l])
    /\ UNCHANGED <<messages, panel, selections, watch>>

\* confirm after "await interaction.response.defer" and
\* "await interaction.channel.fetch_message": the embed is built from the
\* store as it is now and the edit is sent (a fetch that raises has the
\* effect of an edit that raises).
confirm_edit(tk) ==
    /\ tk.pc = "confirm_edit"
    /\ Resume(tk, Editing(tk.lobby_message_id, TRUE,
                          lobby_embed_from_db(db_get_lobby(tk.lobby_message_id))))
    /\ UNCHANGED <<lobbies, lobby_members, messages, panel, selections, race, watch>>

\* ----------------------------------------------------- LobbyView.leave_button
leave_button(l, uid) ==
    /\ HasView(l)
    /\ LET lobby == db_get_lobby(l) IN
       Spawn(IF lobby = NoRow THEN Rejected("leave", "nolobby")
             ELSE IF lobby.status # "open" THEN Rejected("leave", "notopen")
             ELSE IF ~db_is_member(lobby_members, l, uid) THEN Rejected("leave", "notmember")
             ELSE Task("leave", "leave_remove", l, uid, lobby))
    /\ UNCHANGED <<lobbies, lobby_members, messages, panel, selections, race, watch>>

\* A leave that opens the lobby again when it makes room in a closed one.
leave_remove_reopen(tk) ==
    /\ tk.pc = "leave_remove"
    /\ lobby_members' = db_remove_member(lobby_members, tk.lobby.lobby_message_id, tk.uid)
    /\ lobbies' = IF db_get_lobby(tk.lobby.lobby_message_id).status = "closed"
                  THEN db_update_lobby_status(lobbies, tk.lobby.lobby_message_id, "open")
                  ELSE lobbies
    /\ Resume(tk, Editing(tk.lobby.lobby_message_id, TRUE,
                          lobby_embed_from_db(db_get_lobby(tk.lobby.lobby_message_id))'))
    /\ UNCHANGED <<messages, panel, selections, race, watch>>

\* leave_button after "await interaction.response.defer".
leave_remove(tk) ==
    /\ tk.pc = "leave_remove"
    /\ lobby_members' = db_remove_member(lobby_members, tk.lobby.lobby_message_id, tk.uid)
    /\ UNCHANGED lobbies
    /\ Resume(tk, Editing(tk.lobby.lobby_message_id, TRUE,
                          lobby_embed_from_db(db_get_lobby(tk.lobby.lobby_message_id))'))
    /\ UNCHANGED <<messages, panel, selections, race, watch>>

\* ----------------------------------------------------- LobbyView.close_button
close_button(l, uid) ==
    /\ HasView(l)
    /\ LET lobby == db_get_lobby(l) IN
       Spawn(IF lobby = NoRow THEN Rejected("close", "nolobby")
             ELSE IF ~is_host(uid, lobby) THEN Rejected("close", "nothost")
             ELSE IF lobby.status # "open" THEN Rejected("close", "notopen")
             ELSE Task("close", "close_update", l, uid, lobby))
    /\ UNCHANGED <<lobbies, lobby_members, messages, panel, selections, race, watch>>

\* close_button after "await interaction.response.defer".
close_update(tk) ==
    /\ tk.pc = "close_update"
    /\ lobbies' = db_update_lobby_status(lobbies, tk.lobby.lobby_message_id, "closed")
    /\ UNCHANGED lobby_members
    /\ Resume(tk, Editing(tk.lobby.lobby_message_id, TRUE,
                          lobby_embed_from_db(db_get_lobby(tk.lobby.lobby_message_id))'))
    /\ UNCHANGED <<messages, panel, selections, race, watch>>

\* ----------------------------------------------------- LobbyView.start_button
start_button(l, uid) ==
    /\ HasView(l)
    /\ LET lobby == db_get_lobby(l) IN
       Spawn(IF lobby = NoRow THEN Rejected("start", "nolobby")
             ELSE IF ~is_host(uid, lobby) THEN Rejected("start", "nothost")
             ELSE IF lobby.status = "started" THEN Rejected("start", "started")
             ELSE Task("start", "start_update", l, uid, lobby))
    /\ UNCHANGED <<lobbies, lobby_members, messages, panel, selections, race, watch>>

\* start_button after "await interaction.response.defer".
start_update(tk) ==
    /\ tk.pc = "start_update"
    /\ lobbies' = db_update_lobby_status(lobbies, tk.lobby.lobby_message_id, "started")
    /\ UNCHANGED lobby_members
    /\ Resume(tk, Editing(tk.lobby.lobby_message_id, TRUE,
                          lobby_embed_from_db(db_get_lobby(tk.lobby.lobby_message_id))'))
    /\ UNCHANGED <<messages, panel, selections, race, watch>>

\* ---------------------------------------------------- LobbyView.cancel_button
cancel_button(l, uid) ==
    /\ HasView(l)
    /\ LET lobby == db_get_lobby(l) IN
       Spawn(IF lobby = NoRow THEN Rejected("cancel", "nolobby")
             ELSE IF ~is_host(uid, lobby) THEN Rejected("cancel", "nothost")
             ELSE Task("cancel", "cancel_update", l, uid, lobby))
    /\ UNCHANGED <<lobbies, lobby_members, messages, panel, selections, race, watch>>

\* cancel_button after "await interaction.response.defer"; the edit removes
\* the buttons (view=None).
cancel_update(tk) ==
    /\ tk.pc = "cancel_update"
    /\ lobbies' = db_update_lobby_status(lobbies, tk.lobby.lobby_message_id, "cancelled")
    /\ UNCHANGED lobby_members
    /\ Resume(tk, Editing(tk.lobby.lobby_message_id, FALSE,
                          lobby_embed_from_db(db_get_lobby(tk.lobby.lobby_message_id))'))
    /\ UNCHANGED <<messages, panel, selections, race, watch>>

\* ------------------------------- CreateLobbyModal and create_lobby_from_draft
CapacityInputs == Capacities \cup {MinCapacity - 1, MaxCapacity + 1}

\* What the user types into the text field of the modal: a number, or a
\* text that int() does not take.
CapacityTexts ==
    {[numeric |-> TRUE, value |-> c] : c \in CapacityInputs}
        \cup {[numeric |-> FALSE, value |-> 0]}

\* A range check without its lower bound.
OutOfRange_upper(capacity) == capacity > MaxCapacity

\* "if capacity < 2 or capacity > 20"
OutOfRange(capacity) == capacity < MinCapacity \/ capacity > MaxCapacity

CreatesInFlight ==
    BagCardinality([tk \in {x \in InFlight : x.pc = "create_send"} |-> tasks[tk]])

\* on_submit parses and validates the capacity ("capacity = int(...)" raises
\* ValueError on a text that is not a number); create_lobby_from_draft
\* validates the date and time, defers and goes on to send the lobby
\* message.
create_lobby(uid, text, map_name, selected_date) ==
    /\ Cardinality(DOMAIN messages) + CreatesInFlight < MaxLobbies
    /\ Spawn(IF ~text.numeric THEN Rejected("create", "notint")
             ELSE IF OutOfRange(text.value) THEN Rejected("create", "capacity")
             ELSE IF ~selected_date THEN Rejected("create", "date")
             ELSE Task("create", "create_send", 0, uid,
                       [NoRow EXCEPT !.channel_id = TextChannel, !.host_id = uid,
                                     !.capacity = text.value, !.map_name = map_name,
                                     !.start_at = StartAt, !.forum_post_id = NoForumPost]))
    /\ UNCHANGED <<lobbies, lobby_members, messages, panel, selections, race, watch>>

\* msg = await channel.send(embed=temp_embed, view=LobbyView.persistent()):
\* the platform assigns the message id, the buttons are live from here on.
create_send(tk) ==
    /\ tk.pc = "create_send"
    /\ LET id == Cardinality(DOMAIN messages) + 1 IN
        /\ messages' = [m \in DOMAIN messages \cup {id} |->
                            IF m = id THEN [view |-> TRUE, embed |-> TempEmbed]
                            ELSE messages[m]]
        /\ Resume(tk, [tk EXCEPT !.pc = "create_row", !.lobby_message_id = id])
    /\ UNCHANGED <<lobbies, lobby_members, panel, selections, race, watch>>

\* db_create_lobby(...); lobby = db_get_lobby(...); then the message is
\* fetched.
create_row(tk) ==
    /\ tk.pc = "create_row"
    /\ lobbies' = db_create_lobby(lobbies, tk.lobby_message_id, tk.lobby.channel_id,
                                  tk.lobby.host_id, tk.lobby.capacity, tk.lobby.map_name,
                                  tk.lobby.start_at, tk.lobby.forum_post_id)
    /\ Resume(tk, [tk EXCEPT !.pc = "create_edit", !.uid = 0,
                             !.lobby = Kept(db_get_lobby(tk.lobby_message_id)')])
    /\ UNCHANGED <<lobby_members, messages, panel, selections, race, watch>>

\* After "msg = await ...fetch_message(lobby_message_id)": the embed is built
\* from the row read at create_row and the members as they are now, and the
\* edit is sent (a fetch that raises has the effect of an edit that raises).
create_edit(tk) ==
    /\ tk.pc = "create_edit"
    /\ Resume(tk, Editing(tk.lobby_message_id, TRUE, lobby_embed_from_db(tk.lobby)))
    /\ UNCHANGED <<lobbies, lobby_members, messages, panel, selections, race, watch>>

\* ------------------------------ reset_lobbies_command and reset_all_lobbies
reset_lobbies_command ==
    /\ Spawn([NoTask EXCEPT !.kind = "reset", !.pc = "reset_run"])
    /\ UNCHANGED <<lobbies, lobby_members, messages, panel, selections, race, watch>>

\* The rows db_list_all_lobbies returns.
AllRows == {Kept(lobbies[l]) : l \in db_list_all_lobbies}

\* A reset that clears the members and leaves each status to be written with
\* the edit of the lobby's message.
reset_all_lobbies_members_only(tk) ==
    /\ tk.pc = "reset_run"
    /\ IF db_list_all_lobbies = {}
       THEN /\ Resume(tk, [NoTask EXCEPT !.kind = "reset", !.pc = "panel_find"])
            /\ UNCHANGED <<lobbies, lobby_members>>
       ELSE /\ lobby_members' = db_clear_all_members
            /\ UNCHANGED lobbies
            /\ Resume(tk, [tk EXCEPT !.pc = "reset_edit", !.lobbies = AllRows,
                                     !.pending = AllRows])
    /\ UNCHANGED <<messages, panel, selections, race, watch>>

\* reset_all_lobbies up to asyncio.gather: "lobbies" is read, then the store
\* is written.
reset_all_lobbies(tk) ==
    /\ tk.pc = "reset_run"
    /\ IF db_list_all_lobbies = {}
       THEN /\ Resume(tk, [NoTask EXCEPT !.kind = "reset", !.pc = "panel_find"])
            /\ UNCHANGED <<lobbies, lobby_members>>
       ELSE /\ lobby_members' = db_clear_all_members
            /\ lobbies' = [l \in DOMAIN lobbies |-> [lobbies[l] EXCEPT !.status = "cancelled"]]
            /\ Resume(tk, [tk EXCEPT !.pc = "reset_edit", !.lobbies = AllRows,
                                     !.pending = AllRows])
    /\ UNCHANGED <<messages, panel, selections, race, watch>>

\* A gather that gives up on the first coroutine that fails.
gather_abort(tk, lobby, ok) ==
    IF ~ok \/ tk.pending = {lobby}
    THEN [NoTask EXCEPT !.kind = "reset", !.pc = "panel_find", !.lobbies = tk.lobbies]
    ELSE [tk EXCEPT !.pending = @ \ {lobby}]

\* asyncio.gather(*[update_single_lobby(lobby) ...], return_exceptions=True)
\* when the coroutine of lobby has ended, well (ok) or not: reset_all_lobbies
\* waits for the others, and after the last goes on to update_lobby_panel.
gather(tk, lobby, ok) ==
    IF tk.pending = {lobby}
    THEN [NoTask EXCEPT !.kind = "reset", !.pc = "panel_find", !.lobbies = tk.lobbies]
    ELSE [tk EXCEPT !.pending = @ \ {lobby}]

\* update_single_lobby(lobby), one of the gathered coroutines: the message is
\* fetched and edited with the embed of the row read before the store was
\* written and with view=None; a failure is swallowed.
update_single_lobby(tk, lobby) ==
    /\ tk.pc = "reset_edit"
    /\ lobby \in tk.pending
    /\ \E done \in BOOLEAN :
        LET ok == done /\ lobby.lobby_message_id \in DOMAIN messages IN
        /\ messages' = IF ok
                       THEN [messages EXCEPT ![lobby.lobby_message_id] =
                                 [view |-> FALSE, embed |-> Shown(lobby_embed_from_db(lobby))]]
                       ELSE messages
        /\ Edited(lobby.lobby_message_id, ok)
        /\ Resume(tk, gather(tk, lobby, ok))
    /\ UNCHANGED <<lobbies, lobby_members, panel, selections, race>>

\* ------------------------------------ on_ready and restore_lobbies_on_start
\* The rows db_list_active_lobbies returns.
ActiveRows == {Kept(lobbies[l]) : l \in db_list_active_lobbies}

\* on_ready inside the pass-th call of restore_lobbies_on_start with the
\* lobbies of pending still to visit; after the loop of the first call it is
\* suspended before the second call, after the second in update_lobby_panel.
Restoring(pass, pending) ==
    IF pending # {}
    THEN [NoTask EXCEPT !.kind = "on_ready", !.pc = "restore", !.pass = pass,
                        !.pending = pending]
    ELSE IF pass = 1
    THEN [NoTask EXCEPT !.kind = "on_ready", !.pc = "ready_again"]
    ELSE [NoTask EXCEPT !.kind = "on_ready", !.pc = "panel_find"]

\* A loop that stops at the first message it does not find.
Continue_break(pass, pending) == Restoring(pass, {})

\* "if msg is None: continue"
Continue(pass, pending) == Restoring(pass, pending)

\* on_ready up to the first "for lobby in db_list_active_lobbies()": init_db
\* finds the tables, the views are registered, the panel exists.
on_ready(tk) ==
    /\ tk.pc = "ready"
    /\ Resume(tk, Restoring(1, ActiveRows))
    /\ UNCHANGED <<lobbies, lobby_members, messages, panel, selections, race, watch>>

\* on_ready between its two calls of restore_lobbies_on_start.
on_ready_again(tk) ==
    /\ tk.pc = "ready_again"
    /\ Resume(tk, Restoring(2, ActiveRows))
    /\ UNCHANGED <<lobbies, lobby_members, messages, panel, selections, race, watch>>

\* A reconciliation that cancels the lobby whose message it does not find.
restore_lobbies_on_start_cancel(tk) ==
    /\ tk.pc = "restore"
    /\ LET lobby == Latest(tk.pending)
           lobby_id == lobby.lobby_message_id
           rest == tk.pending \ {lobby}
       IN \E found \in BOOLEAN :
            IF ~(found /\ lobby_id \in DOMAIN messages)
            THEN /\ Called(lobby_id, FALSE)
                 /\ lobbies' = db_update_lobby_status(lobbies, lobby_id, "cancelled")
                 /\ Resume(tk, Continue(tk.pass, rest))
            ELSE /\ Called(lobby_id, TRUE)
                 /\ UNCHANGED lobbies
                 /\ Resume(tk, [tk EXCEPT
                        !.pc = "restore_edit",
                        !.pending = rest,
                        !.lobby_message_id = lobby_id,
                        !.view = lobby.status # "cancelled",
                        !.msg_embed = Shown(lobby_embed_from_db(db_get_lobby(lobby_id)))])
    /\ UNCHANGED <<lobby_members, messages, panel, selections, race>>

\* One turn of the loop up to msg.edit: the message is fetched; not found,
\* the loop continues; found, the embed is built and the edit is sent.
restore_lobbies_on_start(tk) ==
    /\ tk.pc = "restore"
    /\ LET lobby == Latest(tk.pending)
           lobby_id == lobby.lobby_message_id
           rest == tk.pending \ {lobby}
       IN \E found \in BOOLEAN :
            IF ~(found /\ lobby_id \in DOMAIN messages)
            THEN /\ Called(lobby_id, FALSE)
                 /\ Resume(tk, Continue(tk.pass, rest))
            ELSE /\ Called(lobby_id, TRUE)
                 /\ Resume(tk, [tk EXCEPT
                        !.pc = "restore_edit",
                        !.pending = rest,
                        !.lobby_message_id = lobby_id,
                        !.view = lobby.status # "cancelled",
                        !.msg_embed = Shown(IF lobby.status = "cancelled"
                                            THEN lobby_embed_from_db(lobby)
                                            ELSE lobby_embed_from_db(db_get_lobby(lobby_id)))])
    /\ UNCHANGED <<lobbies, lobby_members, messages, panel, selections, race>>

\* "await msg.edit(embed=..., view=...)" inside try/except, then the next
\* turn of the loop.
restore_edit(tk) ==
    /\ tk.pc = "restore_edit"
    /\ \E ok \in BOOLEAN :
        /\ messages' = IF ok /\ tk.lobby_message_id \in DOMAIN messages
                       THEN [messages EXCEPT ![tk.lobby_message_id] =
                                                 [view |-> tk.view, embed |-> tk.msg_embed]]
                       ELSE messages
        /\ Edited(tk.lobby_message_id, ok /\ tk.lobby_message_id \in DOMAIN messages)
    /\ Resume(tk, Restoring(tk.pass, tk.pending))
    /\ UNCHANGED <<lobbies, lobby_members, panel, selections, race>>

\* ---------------------------------------------------------- specifications
\* A user or the administrator starts a handler.
Begin ==
    \/ \E l \in LobbyIds, u \in Users : join_button(l, u)
    \/ \E l \in LobbyIds, u \in Users : leave_button(l, u)
    \/ \E l \in LobbyIds, u \in Users : close_button(l, u)
    \/ \E l \in LobbyIds, u \in Users : start_button(l, u)
    \/ \E l \in LobbyIds, u \in Users : cancel_button(l, u)
    \/ \E v \in selections : confirm(v)
    \/ \E u \in Hosts, c \in CapacityTexts, m \in MAPS, d \in BOOLEAN :
        create_lobby(u, c, m, d)
    \/ reset_lobbies_command

Select ==
    \/ \E v \in selections, tier \in TIERS : TierJoinSelect(v, tier)
    \/ \E v \in selections : PositionJoinSelect(v)
    \/ \E v \in selections : ViewTimeout(v)

\* The event loop resumes a suspended handler.
HandlerTail ==
    \/ \E tk \in InFlight : Reject(tk)
    \/ \E tk \in InFlight : EditMessage(tk)
    \/ \E tk \in InFlight : PanelFind(tk)
    \/ \E tk \in InFlight : PanelEdit(tk)

Step ==
    \/ \E tk \in InFlight : join_add(tk)
    \/ \E tk \in InFlight : leave_remove(tk)
    \/ \E tk \in InFlight : close_update(tk)
    \/ \E tk \in InFlight : start_update(tk)
    \/ \E tk \in InFlight : cancel_update(tk)
    \/ \E tk \in InFlight : create_send(tk)
    \/ \E tk \in InFlight : create_row(tk)
    \/ \E tk \in InFlight : create_edit(tk)
    \/ \E tk \in InFlight : confirm_edit(tk)
    \/ \E tk \in InFlight : reset_all_lobbies(tk)
    \/ \E tk \in InFlight : \E lobby \in tk.pending : update_single_lobby(tk, lobby)
    \/ \E tk \in InFlight : defer_raises(tk)
    \/ HandlerTail

Next == Begin \/ Select \/ Step

\* Handlers interleave at their suspension points.
Spec == Init /\ [][Next]_vars

\* Handlers run one at a time: none starts while another is in flight.
NextSeq ==
    \/ NoTaskInFlight /\ Begin
    \/ Select
    \/ Step

SpecSeq == Init /\ [][NextSeq]_vars

\* A join race: an open lobby with some members, every other user makes one
\* join attempt, and nothing but join handlers runs.
InitRace ==
    \E map_name \in MAPS, capacity \in Capacities, host \in Hosts, I \in SUBSET Users :
        /\ Cardinality(I) < capacity
        /\ lobbies = db_create_lobby(<<>>, 1, TextChannel, host, capacity, map_name, StartAt,
                                     NoForumPost)
        /\ lobby_members =
              {[lobby_message_id |-> 1, user_id |-> u,
                position1 |-> IF map_name = RIFT THEN POSITIONS[1] ELSE NULL,
                position2 |-> IF map_name = RIFT THEN POSITIONS[2] ELSE NULL,
                tier |-> IF map_name = RIFT THEN CHOOSE x \in TIERS : TRUE ELSE NULL,
                joined_at |-> 0]
                 : u \in I}
        /\ messages = [m \in {1} |-> [view |-> TRUE,
                                       embed |-> lobby_embed_from_db(lobbies[1])]]
        /\ panel = build_lobby_panel_embed
        /\ selections = {}
        /\ tasks = EmptyBag
        /\ race = [on |-> TRUE, n0 |-> Cardinality(I), out |-> [u \in Users \ I |-> "todo"]]
        /\ watch = NoWatch

NextRace ==
    \/ \E l \in LobbyIds, u \in Users : join_button(l, u)
    \/ \E tk \in InFlight : join_add(tk)
    \/ \E v \in selections : confirm(v)
    \/ \E tk \in InFlight : confirm_edit(tk)
    \/ \E tk \in InFlight : defer_raises(tk)
    \/ Select
    \/ HandlerTail

SpecRace == InitRace /\ [][NextRace]_vars

\* The row db_try_add_member inserts for user_id into a lobby of map_name.
MemberRow(lobby_message_id, map_name, user_id, joined_at) ==
    [lobby_message_id |-> lobby_message_id, user_id |-> user_id,
     position1 |-> IF map_name = RIFT THEN POSITIONS[1] ELSE NULL,
     position2 |-> IF map_name = RIFT THEN POSITIONS[2] ELSE NULL,
     tier |-> IF map_name = RIFT THEN CHOOSE x \in TIERS : TRUE ELSE NULL,
     joined_at |-> joined_at]

\* A store the handlers have left behind, with the lobbies ids: lobbies in
\* any status, each with at most capacity members, and fewer while it is
\* open.
StoreAtRestOf(ids) ==
    \E rows \in [ids -> [host_id : Hosts, capacity : Capacities, map_name : MAPS,
                          status : Statuses]],
       who \in [ids -> SUBSET Users] :
        /\ \A l \in ids :
              /\ Cardinality(who[l]) <= rows[l].capacity
              /\ rows[l].status = "open" => Cardinality(who[l]) < rows[l].capacity
        /\ lobbies = [l \in ids |->
                          [lobby_message_id |-> l, channel_id |-> TextChannel,
                           forum_post_id |-> NoForumPost, host_id |-> rows[l].host_id,
                           capacity |-> rows[l].capacity, map_name |-> rows[l].map_name,
                           start_at |-> StartAt, status |-> rows[l].status]]
        /\ lobby_members = UNION {{MemberRow(l, rows[l].map_name, u, 0) : u \in who[l]}
                                     : l \in ids}

StoreAtRest == StoreAtRestOf(RestIds)

\* Two lobbies with their messages, no handler in flight; the buttons are
\* still on the message of an open lobby.
InitTwo ==
    /\ StoreAtRest
    /\ messages \in [RestIds -> [view : BOOLEAN, embed : {TempEmbed}]]
    /\ \A l \in RestIds : lobbies[l].status = "open" => messages[l].view
    /\ panel = build_lobby_panel_embed
    /\ selections = {}
    /\ tasks = EmptyBag
    /\ race = NoRace
    /\ watch = NoWatch

\* Hosts and other users press cancel on either lobby.
NextCancel ==
    \/ \E l \in RestIds, u \in Users : cancel_button(l, u)
    \/ \E tk \in InFlight : cancel_update(tk)
    \/ \E tk \in InFlight : defer_raises(tk)
    \/ HandlerTail

SpecCancel == InitTwo /\ [][NextCancel]_vars

\* The process has just started on a store left at rest: some lobby
\* messages have been deleted on the platform; of the others, some show the
\* store as it is (without buttons if the lobby is cancelled) and some,
\* whose edits failed, are as they were sent; on_ready is about to run.
InitBoot ==
    /\ StoreAtRest
    /\ \E present \in SUBSET RestIds : \E fresh \in SUBSET present :
          messages = [l \in present |->
                         IF l \in fresh
                         THEN [view |-> lobbies[l].status # "cancelled",
                               embed |-> lobby_embed_from_db(lobbies[l])]
                         ELSE [view |-> TRUE, embed |-> TempEmbed]]
    /\ panel = build_lobby_panel_embed
    /\ selections = {}
    /\ tasks = SetToBag({[NoTask EXCEPT !.kind = "on_ready", !.pc = "ready"]})
    /\ race = NoRace
    /\ watch = [NoWatch EXCEPT !.on = TRUE]

\* on_ready runs to its end with no user action.
NextBoot ==
    \/ \E tk \in InFlight : on_ready(tk)
    \/ \E tk \in InFlight : restore_lobbies_on_start(tk)
    \/ \E tk \in InFlight : restore_edit(tk)
    \/ \E tk \in InFlight : on_ready_again(tk)
    \/ \E tk \in InFlight : PanelFind(tk)
    \/ \E tk \in InFlight : PanelEdit(tk)

SpecBoot == InitBoot /\ [][NextBoot]_vars

\* The process is running on a store left at rest, no handler in flight;
\* the message of a lobby carries the buttons unless the lobby is cancelled.
InitLive ==
    /\ StoreAtRestOf(LobbyIds)
    /\ messages = [l \in LobbyIds |->
                       [view |-> lobbies[l].status # "cancelled", embed |-> TempEmbed]]
    /\ panel = build_lobby_panel_embed
    /\ selections = {}
    /\ tasks = EmptyBag
    /\ race = NoRace
    /\ watch = [NoWatch EXCEPT !.calls = TRUE]

\* Users press the buttons of the lobbies, the administrator resets, and
\* on_ready, once begun, reconciles the lobbies meanwhile: the buttons answer
\* from the moment client.add_view has registered the views.
NextLive ==
    \/ \E l \in LobbyIds, u \in Users : join_button(l, u)
    \/ \E l \in LobbyIds, u \in Users : leave_button(l, u)
    \/ \E l \in LobbyIds, u \in Users : close_button(l, u)
    \/ \E l \in LobbyIds, u \in Users : start_button(l, u)
    \/ \E l \in LobbyIds, u \in Users : cancel_button(l, u)
    \/ \E v \in selections : confirm(v)
    \/ reset_lobbies_command
    \/ Select
    \/ \E tk \in InFlight : join_add(tk)
    \/ \E tk \in InFlight : leave_remove(tk)
    \/ \E tk \in InFlight : close_update(tk)
    \/ \E tk \in InFlight : start_update(tk)
    \/ \E tk \in InFlight : cancel_update(tk)
    \/ \E tk \in InFlight : confirm_edit(tk)
    \/ \E tk \in InFlight : reset_all_lobbies(tk)
    \/ \E tk \in InFlight : \E lobby \in tk.pending : update_single_lobby(tk, lobby)
    \/ \E tk \in InFlight : on_ready(tk)
    \/ \E tk \in InFlight : restore_lobbies_on_start(tk)
    \/ \E tk \in InFlight : restore_edit(tk)
    \/ \E tk \in InFlight : on_ready_again(tk)
    \/ \E tk \in InFlight : defer_raises(tk)
    \/ HandlerTail

\* The administrator has just issued the reset command on a store left at
\* rest, with the lobby messages as InitBoot describes them; the reset runs
\* to its end with no user action.
InitReset ==
    /\ StoreAtRest
    /\ \E present \in SUBSET RestIds : \E fresh \in SUBSET present :
          messages = [l \in present |->
                         IF l \in fresh
                         THEN [view |-> lobbies[l].status # "cancelled",
                               embed |-> lobby_embed_from_db(lobbies[l])]
                         ELSE [view |-> TRUE, embed |-> TempEmbed]]
    /\ panel = build_lobby_panel_embed
    /\ selections = {}
    /\ tasks = SetToBag({[NoTask EXCEPT !.kind = "reset", !.pc = "reset_run"]})
    /\ race = NoRace
    /\ watch = [NoWatch EXCEPT !.on = TRUE]

NextReset ==
    \/ \E tk \in InFlight : reset_all_lobbies(tk)
    \/ \E tk \in InFlight : \E lobby \in tk.pending : update_single_lobby(tk, lobby)
    \/ \E tk \in InFlight : PanelFind(tk)
    \/ \E tk \in InFlight : PanelEdit(tk)

SpecReset == InitReset /\ [][NextReset]_vars

\* A process that keeps its tables in memory: a restart loses the rows.
Restart_memdb ==
    /\ NoTaskInFlight
    /\ selections' = {}
    /\ lobby_members' = {}
    /\ tasks' = SetToBag({[NoTask EXCEPT !.kind = "on_ready", !.pc = "ready"]})
    /\ UNCHANGED <<lobbies, messages, panel, race, watch>>

\* Members, and users who are not, press leave on a lobby at rest, several
\* times over, and nothing but leave handlers runs.
NextLeave ==
    \/ \E l \in LobbyIds, u \in Users : leave_button(l, u)
    \/ \E tk \in InFlight : leave_remove(tk)
    \/ \E tk \in InFlight : defer_raises(tk)
    \/ HandlerTail

SpecLeave == InitLive /\ [][NextLeave]_vars

\* The process stops with no handler in flight and starts again: the objects
\* in memory (the JoinSelectionView of every join in progress, the unused
\* cache "lobbies") are gone, the database file and the platform's messages
\* are as they were, and on_ready runs.
Restart ==
    /\ NoTaskInFlight
    /\ selections' = {}
    /\ tasks' = SetToBag({[NoTask EXCEPT !.kind = "on_ready", !.pc = "ready"]})
    /\ UNCHANGED <<lobbies, lobby_members, messages, panel, race, watch>>

NextRestart == NextLive \/ Restart

SpecRestart == InitLive /\ [][NextRestart]_vars

\* The store is empty and every platform call is observed; lobbies are
\* created, joined, left, closed, started, cancelled and reset.
InitPanel ==
    /\ lobbies = <<>>
    /\ lobby_members = {}
    /\ messages = <<>>
    /\ panel = build_lobby_panel_embed
    /\ selections = {}
    /\ tasks = EmptyBag
    /\ race = NoRace
    /\ watch = [NoWatch EXCEPT !.all = TRUE]

SpecPanel == InitPanel /\ [][Next]_vars

\* The event loop runs every task that is ready: a reset whose platform
\* calls return, with or without an error, is resumed.
SpecResetFair == SpecReset /\ WF_vars(NextReset)

\* ------------------------------------------------------------------ claims
Min(a, b) == IF a < b THEN a ELSE b

StoredStatus(lobby_message_id) == db_get_lobby(lobby_message_id).status

\* C1: in every reachable state the number of lobby_members rows of each
\* lobby is at most the lobby's capacity.
C1_CountWithinCapacity ==
    \A l \in DOMAIN lobbies : db_count_members(lobby_members, l) <= lobbies[l].capacity

\* A join attempt on a lobby that holds capacity rows was answered "full".
C1_Witness ==
    \E l \in DOMAIN lobbies, tk \in InFlight :
        /\ db_count_members(lobby_members, l) = lobbies[l].capacity
        /\ tk.kind = "join" /\ tk.pc = "reject" /\ tk.result = "full"

RaceDone ==
    /\ race.on
    /\ NoTaskInFlight
    /\ \A u \in Racers : race.out[u] \in {"added", "full", "already", "rejected"}

RaceAdded == {u \in Racers : race.out[u] = "added"}

RaceAdmitted == Min(Cardinality(Racers), lobbies[1].capacity - race.n0)

LegalTransitions ==
    {<<"open", "closed">>, <<"open", "started">>, <<"open", "cancelled">>,
     <<"closed", "started">>, <<"closed", "cancelled">>, <<"started", "cancelled">>}

\* C3: every change of a lobby's stored status is one of open->closed,
\* open->started, open->cancelled, closed->started, closed->cancelled,
\* started->cancelled.
C3_OnlyLegalTransitions ==
    [][\A l \in DOMAIN lobbies :
          lobbies'[l].status # lobbies[l].status
              => <<lobbies[l].status, lobbies'[l].status>> \in LegalTransitions]_vars

\* C4: once a lobby's stored status is cancelled it is cancelled in every
\* later state.
C4_CancelledIsAbsorbing ==
    [][\A l \in DOMAIN lobbies :
          lobbies[l].status = "cancelled" => lobbies'[l].status = "cancelled"]_vars

\* C5: with handlers run one at a time, a close is accepted (gets past its
\* guard to its status write) only from open, and a start only from open or
\* closed: from any other stored status the action is rejected and the status
\* stays as it is.
C5_InvalidSourceRejected ==
    \A tk \in InFlight :
        /\ tk.pc = "close_update" => StoredStatus(tk.lobby.lobby_message_id) = "open"
        /\ tk.pc = "start_update"
              => StoredStatus(tk.lobby.lobby_message_id) \in {"open", "closed"}

\* C6: a join, leave, close or start handler that has passed its guard and is
\* about to write finds the stored status equal to the status its guard read.
C6_WritesOnCurrentStatus ==
    \A tk \in InFlight :
        tk.pc \in {"join_add", "leave_remove", "close_update", "start_update"}
            => StoredStatus(tk.lobby.lobby_message_id) = tk.lobby.status

\* C7: a leave deletes a row only while the stored status is open, and a leave
\* pressed while the status is closed, started or cancelled is rejected.
C7_LeaveOnlyWhileOpen ==
    [][/\ \A tk \in InFlight :
              (leave_remove(tk) /\ lobby_members' # lobby_members)
                  => StoredStatus(tk.lobby.lobby_message_id) = "open"
       /\ \A l \in DOMAIN lobbies, u \in Users :
              (leave_button(l, u) /\ lobbies[l].status # "open")
                  => /\ lobby_members' = lobby_members
                     /\ \E tk \in BagToSet(tasks') : tk.kind = "leave" /\ tk.pc = "reject"
      ]_vars

\* C8: a membership row is inserted only while the stored status of its
\* lobby is open.
C8_InsertOnlyWhileOpen ==
    [][\A m \in lobby_members' \ lobby_members :
          StoredStatus(m.lobby_message_id) = "open"]_vars

\* C9: in every state a lobby whose status is open has fewer members than
\* its capacity.
C9_OpenImpliesRoom ==
    \A l \in DOMAIN lobbies :
        lobbies[l].status = "open"
            => db_count_members(lobby_members, l) < lobbies[l].capacity

\* The join that filled the lobby has completed and the lobby is closed.
C9_Witness ==
    /\ NoTaskInFlight
    /\ \E l \in DOMAIN lobbies :
        /\ db_count_members(lobby_members, l) = lobbies[l].capacity
        /\ lobbies[l].status = "closed"

\* C10: the status write of a join (direct or confirmed) changes a lobby's
\* status only from open.
C10_AutoCloseOnlyFromOpen ==
    [][((\E tk \in InFlight : join_add(tk)) \/ (\E v \in selections : confirm(v)))
          => \A l \in DOMAIN lobbies :
                lobbies'[l].status # lobbies[l].status => lobbies[l].status = "open"]_vars

\* This step started a handler that is left suspended as t.
StartedWith(t) == tasks' = tasks (+) SetToBag({t})

\* This step resumed the handler tk and left it suspended as t.
WentOnWith(tk, t) == tasks' = (tasks (-) SetToBag({tk})) (+) SetToBag({t})

StoreUnchanged == lobby_members' = lobby_members /\ lobbies' = lobbies

\* C11 as stated: whenever a member of a lobby presses its join button, the
\* attempt is answered "already", so it is never turned away by the status
\* guard.
C11_Original ==
    [][\A l \in DOMAIN lobbies, u \in Users :
          (join_button(l, u) /\ db_is_member(lobby_members, l, u))
              => ~StartedWith(Rejected("join", "notopen"))]_vars

\* C11 amended: a join attempt by a member that reaches db_try_add_member
\* (direct join after the defer, or a confirmed selection past the status
\* and ready checks) is answered "already"; that attempt, and a member's
\* press of the join button whatever the guard answers, leave every
\* membership row (count, positions, tier, joined_at) and every lobby status
\* as they were.
C11_AlreadyMember ==
    [][/\ \A tk \in InFlight :
              (join_add(tk) /\ db_is_member(lobby_members, tk.lobby.lobby_message_id, tk.uid))
                  => StoreUnchanged /\ WentOnWith(tk, Rejected("join", "already"))
       /\ \A v \in selections :
              (/\ confirm(v)
               /\ db_is_member(lobby_members, v.lobby_message_id, v.uid)
               /\ StoredStatus(v.lobby_message_id) = "open"
               /\ ready(v))
                  => StoreUnchanged /\ StartedWith(Rejected("confirm", "already"))
       /\ \A l \in DOMAIN lobbies, u \in Users :
              (join_button(l, u) /\ db_is_member(lobby_members, l, u))
                  => StoreUnchanged
      ]_vars

\* A join was answered "already" while the lobby holds a row.
C11_Witness ==
    \E tk \in InFlight, m \in lobby_members :
        /\ tk.kind \in {"join", "confirm"} /\ tk.pc = "reject" /\ tk.result = "already"
        /\ m.lobby_message_id \in DOMAIN lobbies

\* C12: a join attempt by a non-member on a lobby whose member count equals
\* its capacity inserts no row and is answered "full" by db_try_add_member,
\* or is turned away by the status guard of join_button or confirm.
C12_FullRejected ==
    [][/\ \A tk \in InFlight :
              (/\ join_add(tk)
               /\ ~db_is_member(lobby_members, tk.lobby.lobby_message_id, tk.uid)
               /\ db_count_members(lobby_members, tk.lobby.lobby_message_id)
                      = lobbies[tk.lobby.lobby_message_id].capacity)
                  => /\ lobby_members' = lobby_members
                     /\ WentOnWith(tk, Rejected("join", "full"))
       /\ \A v \in selections :
              (/\ confirm(v)
               /\ v.lobby_message_id \in DOMAIN lobbies
               /\ ~db_is_member(lobby_members, v.lobby_message_id, v.uid)
               /\ db_count_members(lobby_members, v.lobby_message_id)
                      = lobbies[v.lobby_message_id].capacity)
                  => /\ lobby_members' = lobby_members
                     /\ \/ StartedWith(Rejected("confirm", "full"))
                        \/ StartedWith(Rejected("confirm", "notopen"))
       /\ \A l \in DOMAIN lobbies, u \in Users :
              (/\ join_button(l, u)
               /\ ~db_is_member(lobby_members, l, u)
               /\ db_count_members(lobby_members, l) = lobbies[l].capacity)
                  => /\ lobby_members' = lobby_members
                     /\ StartedWith(Rejected("join", "notopen"))
      ]_vars

\* A non-member's join was answered "full" and the lobby, closed by the join
\* that filled it, still holds capacity rows.
C12_Witness ==
    \E l \in DOMAIN lobbies :
        /\ lobbies[l].status = "closed"
        /\ db_count_members(lobby_members, l) = lobbies[l].capacity
        /\ Rejected("join", "full") \in InFlight

\* C13: in every reachable state the table lobby_members holds at most one
\* row per (lobby_message_id, user_id), whatever the interleaving of one
\* user's join attempts.
C13_OneRowPerUser ==
    \A m1, m2 \in lobby_members :
        (m1.lobby_message_id = m2.lobby_message_id /\ m1.user_id = m2.user_id) => m1 = m2

\* A second join attempt of a user is past the status guard, suspended before
\* db_try_add_member, while the user's row is in the table and the handler
\* that wrote last is still editing the message.
C13_Witness ==
    \E tk \in InFlight :
        /\ tk.pc = "join_add"
        /\ db_is_member(lobby_members, tk.lobby.lobby_message_id, tk.uid)
        /\ \E t2 \in InFlight : t2.pc = "edit"

\* C14: when a reset finishes, every lobby it listed when it began is
\* cancelled and has no membership row, whatever handlers were suspended at
\* an await when the reset wrote the store.
C14_ResetCancelsAll ==
    [][\A tk \in InFlight :
          (PanelEdit(tk) /\ tk.kind = "reset")
              => \A lobby \in tk.lobbies :
                    /\ StoredStatus(lobby.lobby_message_id) = "cancelled"
                    /\ db_count_members(lobby_members, lobby.lobby_message_id) = 0]_vars

\* C15: a host cancel changes only the status of its own lobby, to
\* cancelled: no step of a cancel handler changes a membership row, and the
\* row of every other lobby stays as it is.
C15_CancelFrame ==
    [][/\ lobby_members' = lobby_members
       /\ \A l \in DOMAIN lobbies :
             lobbies'[l] # lobbies[l]
                 => /\ \E tk \in InFlight :
                          cancel_update(tk) /\ tk.lobby.lobby_message_id = l
                    /\ lobbies'[l] = [lobbies[l] EXCEPT !.status = "cancelled"]
      ]_vars

\* The host's cancel has written: its lobby is cancelled and keeps its
\* members, the other lobby is still open with its own member.
C15_Witness ==
    \E l1, l2 \in DOMAIN lobbies, tk \in InFlight :
        /\ l1 # l2
        /\ tk.pc = "edit" /\ tk.view = FALSE /\ tk.lobby_message_id = l1
        /\ lobbies[l1].status = "cancelled"
        /\ db_count_members(lobby_members, l1) = lobbies[l1].capacity
        /\ lobbies[l2].status = "open"
        /\ db_count_members(lobby_members, l2) > 0

\* C16: a close, start or cancel pressed by a user other than the lobby's
\* host is rejected as "not the host" whatever the lobby's status, and
\* neither the press nor the rejection changes a status or a membership row;
\* while the lobby is open, a join pressed by any user is not rejected and a
\* leave pressed by any member is accepted.
C16_HostOnly ==
    [][/\ \A l \in DOMAIN lobbies : \A u \in Users \ {lobbies[l].host_id} :
             /\ close_button(l, u)
                   => StoreUnchanged /\ StartedWith(Rejected("close", "nothost"))
             /\ start_button(l, u)
                   => StoreUnchanged /\ StartedWith(Rejected("start", "nothost"))
             /\ cancel_button(l, u)
                   => StoreUnchanged /\ StartedWith(Rejected("cancel", "nothost"))
       /\ \A tk \in InFlight : Reject(tk) => StoreUnchanged
       /\ \A l \in DOMAIN lobbies, u \in Users :
             /\ (join_button(l, u) /\ lobbies[l].status = "open")
                   => \/ StartedWith(Task("join", "join_add", l, u, lobbies[l]))
                      \/ JoinSelectionView(l, u) \in selections'
             /\ (/\ leave_button(l, u)
                 /\ lobbies[l].status = "open"
                 /\ db_is_member(lobby_members, l, u))
                   => StartedWith(Task("leave", "leave_remove", l, u, lobbies[l]))
      ]_vars

\* A user other than the host was told "not the host" on a lobby that is
\* cancelled and still carries its buttons.
C16_Witness ==
    \E l \in DOMAIN lobbies, kind \in {"close", "start", "cancel"} :
        /\ lobbies[l].status = "cancelled"
        /\ HasView(l)
        /\ Rejected(kind, "nothost") \in InFlight

\* C17: with handlers run one at a time, the host's cancel on a lobby that is
\* open, closed or started is accepted and writes cancelled; the host's
\* start on a lobby that is open or closed is accepted and writes started;
\* the host's close on an open lobby is accepted and writes closed; the
\* write finds the status the guard read, and the rest of the handler leaves
\* the status as written.
C17_HostActionTakesEffect ==
    [][/\ \A l \in DOMAIN lobbies :
             LET host == lobbies[l].host_id
                 status == lobbies[l].status
             IN /\ (cancel_button(l, host) /\ status \in {"open", "closed", "started"})
                      => StartedWith(Task("cancel", "cancel_update", l, host, lobbies[l]))
                /\ (start_button(l, host) /\ status \in {"open", "closed"})
                      => StartedWith(Task("start", "start_update", l, host, lobbies[l]))
                /\ (close_button(l, host) /\ status = "open")
                      => StartedWith(Task("close", "close_update", l, host, lobbies[l]))
       /\ \A tk \in InFlight :
             LET l == tk.lobby.lobby_message_id IN
             /\ cancel_update(tk)
                   => StoredStatus(l) = tk.lobby.status /\ StoredStatus(l)' = "cancelled"
             /\ start_update(tk)
                   => StoredStatus(l) = tk.lobby.status /\ StoredStatus(l)' = "started"
             /\ close_update(tk)
                   => StoredStatus(l) = tk.lobby.status /\ StoredStatus(l)' = "closed"
             /\ (Reject(tk) \/ EditMessage(tk) \/ PanelFind(tk) \/ PanelEdit(tk))
                   => lobbies' = lobbies
      ]_vars

\* The host's cancel of a started lobby has been accepted.
C17_Witness ==
    \E tk \in InFlight :
        /\ tk.pc = "cancel_update"
        /\ tk.lobby.status = "started"
        /\ tk.uid = tk.lobby.host_id

\* on_ready has returned.
Reconciled == NoTaskInFlight

\* The message of lobby l shows the stored status and the stored members.
DisplaysStore(l) ==
    /\ messages[l].embed.status = lobbies[l].status
    /\ messages[l].embed.count = db_count_members(lobby_members, l)
    /\ {line.user_id : line \in messages[l].embed.lines}
          = {m.user_id : m \in MembersOf(lobby_members, l)}

\* C18: when reconciliation has run to its end, every active lobby (open,
\* closed, started) on whose message no fetch or edit failed has been
\* refreshed: its message shows the store and carries the buttons, whatever
\* failed on the messages of the other lobbies.
C18_RestoreIndependent ==
    Reconciled =>
        \A l \in db_list_active_lobbies :
            l \notin watch.failed
                => l \in DOMAIN messages /\ messages[l].view /\ DisplaysStore(l)

\* Reconciliation has ended; the message of the active lobby visited first
\* could not be fetched and the message of the other active lobby has been
\* edited and shows the store.
C18_Witness ==
    /\ Reconciled
    /\ \E l1, l2 \in db_list_active_lobbies :
          /\ l1 > l2
          /\ l1 \notin DOMAIN messages
          /\ l1 \in watch.failed
          /\ l2 \in watch.edited \ watch.failed
          /\ lobbies[l2].status = "closed"
          /\ messages[l2].embed.status = "closed"

\* C19: when reconciliation has run to its end with no failure on its
\* message, a lobby whose stored status is cancelled has a message without
\* buttons that shows the status cancelled.
C19_CancelledRefreshed ==
    Reconciled =>
        \A l \in DOMAIN lobbies :
            (lobbies[l].status = "cancelled" /\ l \in DOMAIN messages /\ l \notin watch.failed)
                => ~messages[l].view /\ messages[l].embed.status = "cancelled"

\* C20: when reconciliation has run to its end with every message present
\* and no platform call failed, the message of each lobby that is open,
\* closed or started shows the stored status and member list and carries the
\* buttons.
C20_RestoredMatchesStore ==
    (Reconciled /\ watch.failed = {} /\ DOMAIN messages = DOMAIN lobbies)
        => \A l \in db_list_active_lobbies : messages[l].view /\ DisplaysStore(l)

\* Reconciliation has ended without a failure on two lobbies with members,
\* one open and one started, both messages refreshed.
C20_Witness ==
    /\ Reconciled
    /\ watch.failed = {}
    /\ watch.edited = DOMAIN lobbies
    /\ DOMAIN messages = DOMAIN lobbies
    /\ \E l1, l2 \in DOMAIN lobbies :
          /\ lobbies[l1].status = "open" /\ lobbies[l2].status = "started"
          /\ db_count_members(lobby_members, l1) = 1
          /\ db_count_members(lobby_members, l2) = 2
          /\ messages[l1].embed.count = 1
          /\ messages[l2].embed.count = 2

\* C21: whenever no handler is in flight and no platform call on a lobby
\* message has failed, the message of a lobby whose stored status is
\* cancelled carries no buttons, whatever join, leave, close, start or
\* reconciliation edit interleaved with the cancel or reset.
C21_NoButtonsOnCancelled ==
    (NoTaskInFlight /\ watch.failed = {})
        => \A l \in DOMAIN lobbies :
              (lobbies[l].status = "cancelled" /\ l \in DOMAIN messages) => ~messages[l].view

\* The content embed shows the status and the members the store holds for
\* lobby l at the end of this step.
ShowsStoreNow(l, embed) ==
    /\ embed.status = StoredStatus(l)'
    /\ embed.count = db_count_members(lobby_members', l)
    /\ {line.user_id : line \in embed.lines} = {m.user_id : m \in MembersOf(lobby_members', l)}

\* C22: the content of every lobby message edit shows the status and the
\* members stored at the moment the content is built: the content a join,
\* leave, close, start, cancel or reconciliation step builds and leaves with
\* its suspended edit, and the content a reset builds and sends for each
\* lobby.
C22_EditShowsStore ==
    [][/\ \A t \in BagToSet(tasks') \ InFlight :
             t.pc \in {"edit", "restore_edit"} => ShowsStoreNow(t.lobby_message_id, t.msg_embed)
       /\ \A tk \in InFlight : \A lobby \in tk.pending :
             (update_single_lobby(tk, lobby) /\ messages' # messages)
                 => ShowsStoreNow(lobby.lobby_message_id,
                                  messages'[lobby.lobby_message_id].embed)
      ]_vars

\* C23 as stated: a restart with no handler in flight loses nothing a later
\* join, leave, close, start, cancel or reset reads: the store is as it was
\* and every join in progress can still be confirmed.
C23_Original ==
    [][Restart => (StoreUnchanged /\ selections' = selections)]_vars

\* C23 amended: a restart leaves the store as it is, and the outcome of every
\* press of a LobbyView button, of every store write that follows it and of
\* every reset is determined by the rows of the store (and the handler's own
\* inputs and locals) alone, before a restart as after it; a selection view
\* opened before the restart is lost, and the user presses join again.
C23_StoreDecides ==
    [][/\ Restart => (StoreUnchanged /\ selections' = {})
       /\ \A l \in DOMAIN lobbies, u \in Users :
            LET row == lobbies[l]
                member == \E m \in lobby_members : m.lobby_message_id = l /\ m.user_id = u
            IN /\ join_button(l, u)
                    => /\ StoreUnchanged
                       /\ IF row.status # "open"
                          THEN StartedWith(Rejected("join", "notopen"))
                          ELSE IF row.map_name # RIFT
                          THEN StartedWith(Task("join", "join_add", l, u, row))
                          ELSE JoinSelectionView(l, u) \in selections'
               /\ leave_button(l, u)
                    => /\ StoreUnchanged
                       /\ StartedWith(IF row.status # "open" THEN Rejected("leave", "notopen")
                                      ELSE IF ~member THEN Rejected("leave", "notmember")
                                      ELSE Task("leave", "leave_remove", l, u, row))
               /\ close_button(l, u)
                    => /\ StoreUnchanged
                       /\ StartedWith(IF u # row.host_id THEN Rejected("close", "nothost")
                                      ELSE IF row.status # "open"
                                      THEN Rejected("close", "notopen")
                                      ELSE Task("close", "close_update", l, u, row))
               /\ start_button(l, u)
                    => /\ StoreUnchanged
                       /\ StartedWith(IF u # row.host_id THEN Rejected("start", "nothost")
                                      ELSE IF row.status = "started"
                                      THEN Rejected("start", "started")
                                      ELSE Task("start", "start_update", l, u, row))
               /\ cancel_button(l, u)
                    => /\ StoreUnchanged
                       /\ StartedWith(IF u # row.host_id THEN Rejected("cancel", "nothost")
                                      ELSE Task("cancel", "cancel_update", l, u, row))
       /\ \A tk \in InFlight :
            LET l == tk.lobby.lobby_message_id
                mine == {m \in lobby_members : m.lobby_message_id = l /\ m.user_id = tk.uid}
                count == Cardinality({m \in lobby_members : m.lobby_message_id = l})
                WritesStatus(status) ==
                    /\ lobby_members' = lobby_members
                    /\ lobbies' = [lobbies EXCEPT ![l].status = status]
            IN /\ join_add(tk)
                    => IF mine # {} \/ count >= tk.lobby.capacity
                       THEN StoreUnchanged
                       ELSE /\ \E now \in Times :
                                 lobby_members' = lobby_members \cup
                                     {MemberRow(l, ARAM, tk.uid, now)}
                            /\ lobbies' = IF count + 1 >= tk.lobby.capacity
                                          THEN [lobbies EXCEPT ![l].status = "closed"]
                                          ELSE lobbies
               /\ leave_remove(tk)
                    => lobby_members' = lobby_members \ mine /\ lobbies' = lobbies
               /\ close_update(tk) => WritesStatus("closed")
               /\ start_update(tk) => WritesStatus("started")
               /\ cancel_update(tk) => WritesStatus("cancelled")
               /\ reset_all_lobbies(tk)
                    => /\ lobby_members' = {}
                       /\ lobbies' = [x \in DOMAIN lobbies |->
                                         [lobbies[x] EXCEPT !.status = "cancelled"]]
      ]_vars

\* After a restart, while on_ready is reconciling, the host's cancel of a
\* started lobby with a member has been accepted.
C23_Witness ==
    /\ \E t \in InFlight : t.kind = "on_ready" /\ t.pc = "restore"
    /\ \E tk \in InFlight :
          /\ tk.pc = "cancel_update"
          /\ tk.lobby.status = "started"
          /\ db_count_members(lobby_members, tk.lobby.lobby_message_id) > 0

\* reset_all_lobbies is past asyncio.gather, or has returned.
ResetGathered == \A tk \in InFlight : tk.pc \in {"panel_find", "panel_edit"}

\* C24: once a reset is past its gather, whatever lookups and edits failed,
\* every lobby is cancelled and without members in the store, and the
\* message of every lobby on which no call failed has been edited and
\* carries no buttons; and the reset always goes on to update the panel and
\* returns.
C24_ResetIsolatesFailures ==
    /\ [](ResetGathered =>
            /\ \A l \in DOMAIN lobbies :
                  /\ lobbies[l].status = "cancelled"
                  /\ db_count_members(lobby_members, l) = 0
            /\ \A l \in DOMAIN lobbies \ watch.failed :
                  l \in DOMAIN messages /\ l \in watch.edited /\ ~messages[l].view)
    /\ <>[]NoTaskInFlight

\* The reset has returned; the edit of the message of one lobby failed, the
\* message of the other lobby, which was open with a member, has been edited
\* and has lost its buttons.
C24_Witness ==
    /\ NoTaskInFlight
    /\ \E l1, l2 \in DOMAIN lobbies :
          /\ l1 \in watch.failed /\ l1 \in DOMAIN messages /\ messages[l1].view
          /\ l2 \in watch.edited \ watch.failed
          /\ ~messages[l2].view
          /\ messages[l2].embed.status = "open"
          /\ lobbies[l1].status = "cancelled" /\ lobbies[l2].status = "cancelled"
          /\ lobby_members = {}

\* C25: no step removes a lobbies row: the set of lobby ids only grows, every
\* row keeps its id, and the store writes of cancel and of reset leave the
\* set of ids as it is and set status to cancelled.
C25_RowsNeverRemoved ==
    [][/\ \A l \in DOMAIN lobbies :
             l \in DOMAIN lobbies' /\ lobbies'[l].lobby_message_id = l
       /\ \A tk \in InFlight :
             /\ cancel_update(tk)
                   => /\ DOMAIN lobbies' = DOMAIN lobbies
                      /\ StoredStatus(tk.lobby.lobby_message_id)' = "cancelled"
             /\ reset_all_lobbies(tk)
                   => /\ DOMAIN lobbies' = DOMAIN lobbies
                      /\ \A l \in DOMAIN lobbies : lobbies'[l].status = "cancelled"
      ]_vars

\* A reset has cleared the membership rows and cancelled every lobby it
\* listed; the row of a lobby whose message has already lost its buttons is
\* still there.
C25_Witness ==
    \E tk \in InFlight, l \in DOMAIN lobbies :
        /\ tk.kind = "reset" /\ tk.pc = "reset_edit"
        /\ l \in {lobby.lobby_message_id : lobby \in tk.lobbies}
        /\ lobbies[l].status = "cancelled"
        /\ l \in DOMAIN messages /\ ~messages[l].view

\* C26: a creation whose capacity text is not a number, or is a number
\* outside 2..20, or whose date is missing, is rejected and changes neither
\* the store nor a lobby message, and the rejection itself changes nothing;
\* every stored lobby has a capacity between 2 and 20.
C26_InvalidCreationRejected ==
    [][/\ \A u \in Hosts, text \in CapacityTexts, m \in MAPS, d \in BOOLEAN :
             (/\ create_lobby(u, text, m, d)
              /\ \/ ~text.numeric
                 \/ text.value < MinCapacity
                 \/ text.value > MaxCapacity
                 \/ ~d)
                 => /\ StoreUnchanged
                    /\ messages' = messages
                    /\ \E result \in {"notint", "capacity", "date"} :
                          StartedWith(Rejected("create", result))
       /\ \A tk \in InFlight : (Reject(tk) /\ tk.kind = "create") => StoreUnchanged
       /\ \A l \in DOMAIN lobbies' :
             lobbies'[l].capacity >= MinCapacity /\ lobbies'[l].capacity <= MaxCapacity
      ]_vars

\* A creation with a text that is not a number and a creation without a date
\* have been rejected, and the store is still empty.
C26_Witness ==
    /\ Rejected("create", "notint") \in InFlight
    /\ Rejected("create", "date") \in InFlight
    /\ lobbies = <<>>
    /\ lobby_members = {}

\* C27: no handler ends on an exception of a platform call: a handler that
\* leaves the event loop does so at its end, after its rejection message or
\* after the panel update.
C27_RunsToEnd ==
    [][\A tk \in InFlight : Return(tk) => tk.pc \in {"reject", "panel_edit"}]_vars

\* C28: in every state, for every lobby, status and user, setting the status
\* twice gives the store that setting it once gives, and a second removal
\* after the first removes no row and returns 0; a leave handler whose user
\* has no row any more removes nothing and goes on to its edit, one whose
\* user has a row removes exactly that row, so two interleaved leaves of one
\* user remove one row.
C28_Idempotent ==
    [][/\ \A l \in DOMAIN lobbies, status \in Statuses :
             db_update_lobby_status(db_update_lobby_status(lobbies, l, status), l, status)
                 = db_update_lobby_status(lobbies, l, status)
       /\ \A l \in DOMAIN lobbies, u \in Users :
             LET once == db_remove_member(lobby_members, l, u) IN
             /\ db_remove_member(once, l, u) = once
             /\ db_remove_member_rowcount(once, l, u) = 0
             /\ db_remove_member_rowcount(lobby_members, l, u)
                    = IF db_is_member(lobby_members, l, u) THEN 1 ELSE 0
       /\ \A tk \in InFlight :
             leave_remove(tk)
                 => LET l == tk.lobby.lobby_message_id IN
                    /\ Cardinality(lobby_members) - Cardinality(lobby_members')
                           = db_remove_member_rowcount(lobby_members, l, tk.uid)
                    /\ ~db_is_member(lobby_members', l, tk.uid)
                    /\ lobbies' = lobbies
                    /\ \E t \in BagToSet(tasks') : t.pc = "edit" /\ t.lobby_message_id = l
      ]_vars

\* Two leave handlers of the one member of an open lobby have both run their
\* removal and are editing the message; the lobby has no row left.
C28_Witness ==
    /\ \E t \in InFlight : t.pc = "edit" /\ tasks[t] = 2
    /\ lobby_members = {}
    /\ \E l \in DOMAIN lobbies : lobbies[l].status = "open"

\* The lines of all fields of a panel content.
Listed(embed) == UNION embed

\* C29: each time the panel content is built, its lines are exactly one line
\* per lobby whose stored status is open at that moment, with the number of
\* membership rows and the capacity the store holds for it; no line is in
\* two fields and no field is empty.
C29_PanelListsOpen ==
    [][\A tk \in InFlight :
          PanelFind(tk)
              => \E t \in BagToSet(tasks') :
                    /\ t.pc = "panel_edit"
                    /\ WentOnWith(tk, t)
                    /\ Listed(t.embed) =
                          {<<l, Cardinality({m \in lobby_members : m.lobby_message_id = l}),
                             lobbies[l].capacity>>
                              : l \in {x \in DOMAIN lobbies : lobbies[x].status = "open"}}
                    /\ \A f1, f2 \in t.embed : f1 # f2 => f1 \cap f2 = {}
                    /\ {} \notin t.embed
      ]_vars

\* A panel content has been built that lists one open lobby with its member,
\* while the other lobby, cancelled with its members, is not listed.
C29_Witness ==
    \E tk \in InFlight, l1, l2 \in DOMAIN lobbies :
        /\ tk.pc = "panel_edit"
        /\ lobbies[l1].status = "open" /\ db_count_members(lobby_members, l1) = 1
        /\ lobbies[l2].status = "cancelled" /\ db_count_members(lobby_members, l2) = 2
        /\ Listed(tk.embed) = {<<l1, 1, lobbies[l1].capacity>>}

\* What db_try_add_member returned is right for the step from the rows
\* before to the rows after: the count is the lobby's number of rows after
\* the call, one more than before on "added" with exactly the new row
\* inserted, and the unchanged count with unchanged rows on "already" and
\* "full".
ReturnsActualCount(r, l) ==
    /\ lobby_members' = r.rows
    /\ r.count = db_count_members(lobby_members', l)
    /\ r.status \in {"added", "already", "full"}
    /\ r.status = "added"
          => /\ r.count = db_count_members(lobby_members, l) + 1
             /\ Cardinality(lobby_members' \ lobby_members) = 1
             /\ lobby_members \subseteq lobby_members'
    /\ r.status \in {"already", "full"}
          => r.count = db_count_members(lobby_members, l) /\ lobby_members' = lobby_members

\* C30: every call of db_try_add_member, from the direct join and from the
\* confirmed selection, returns with its outcome the member count of the
\* lobby after the call: the previous count plus one on "added", the
\* unchanged count on "already" and "full".
C30_ReturnsActualCount ==
    [][/\ \A tk \in InFlight :
             join_add(tk)
                 => \E now \in Times :
                       ReturnsActualCount(
                           db_try_add_member(lobby_members, tk.lobby.lobby_message_id, tk.uid,
                                             NULL, NULL, NULL, tk.lobby.capacity, now),
                           tk.lobby.lobby_message_id)
       /\ \A v \in selections :
             (confirm(v) /\ StoredStatus(v.lobby_message_id) = "open" /\ ready(v))
                 => \E now \in Times :
                       ReturnsActualCount(
                           db_try_add_member(lobby_members, v.lobby_message_id, v.uid,
                                             v.position1, v.position2, v.selected_tier,
                                             lobbies[v.lobby_message_id].capacity, now),
                           v.lobby_message_id)
      ]_vars

\* The join that filled and closed the lobby is editing the message, and a
\* second attempt of a member has been answered "already".
C30_Witness ==
    /\ \E l \in DOMAIN lobbies :
          /\ lobbies[l].status = "closed"
          /\ db_count_members(lobby_members, l) = lobbies[l].capacity
    /\ \E t \in InFlight : t.pc = "edit"
    /\ Rejected("join", "already") \in InFlight

\* C31: in every reachable state each membership row of a lobby whose map
\* is not the rift map has null position1, position2 and tier, and each
\* membership row of a lobby on the rift map has two positions and a tier,
\* none of them null.
C31_RoleTierMatchMap ==
    \A m \in lobby_members :
        m.lobby_message_id \in DOMAIN lobbies
            => IF lobbies[m.lobby_message_id].map_name # RIFT
               THEN m.position1 = NULL /\ m.position2 = NULL /\ m.tier = NULL
               ELSE m.position1 # NULL /\ m.position2 # NULL /\ m.tier # NULL

\* A confirmed selection has inserted a row with two positions and a tier
\* into a rift lobby and is about to refresh the message.
C31_Witness ==
    /\ \E m \in lobby_members :
          /\ lobbies[m.lobby_message_id].map_name = RIFT
          /\ m.position1 = POSITIONS[1] /\ m.position2 = POSITIONS[2] /\ m.tier \in TIERS
    /\ \E t \in InFlight : t.kind = "confirm" /\ t.pc = "confirm_edit"

\* C32: a lobbies row is created with status open, under an id that had no
\* row, and its lobby has no membership row at that moment; and no step
\* takes a lobby whose status is not open back to open.
C32_NeverOpenAgain ==
    [][/\ \A tk \in InFlight :
             create_row(tk)
                 => /\ tk.lobby_message_id \notin DOMAIN lobbies
                    /\ lobbies'[tk.lobby_message_id].status = "open"
                    /\ db_count_members(lobby_members', tk.lobby_message_id) = 0
       /\ \A l \in DOMAIN lobbies :
             lobbies[l].status # "open" => lobbies'[l].status # "open"
      ]_vars

\* A lobby created open is closed with a member and with room left, and the
\* host's start, accepted on the closed lobby, is about to write its status.
C32_Witness ==
    \E l \in DOMAIN lobbies, tk \in InFlight :
        /\ lobbies[l].status = "closed"
        /\ db_count_members(lobby_members, l) < lobbies[l].capacity
        /\ db_count_members(lobby_members, l) > 0
        /\ tk.pc = "start_update" /\ tk.lobby.status = "closed"

\* C33: whenever every handler has finished and no platform call has failed,
\* the panel message lists exactly the lobbies whose stored status is open,
\* each with its stored member count and capacity.
C33_PanelShowsOpenLobbies ==
    (NoTaskInFlight /\ watch.failed = {})
        => Listed(panel) =
              {<<l, db_count_members(lobby_members, l), lobbies[l].capacity>>
                  : l \in db_list_open_lobbies}

\* C34: after its creation a lobbies row changes in its status only: every
\* step leaves the capacity, host id, map, start time, channel id and forum
\* post id of every lobby as they are.
C34_OnlyStatusChanges ==
    [][\A l \in DOMAIN lobbies :
          /\ l \in DOMAIN lobbies'
          /\ lobbies'[l].capacity = lobbies[l].capacity
          /\ lobbies'[l].host_id = lobbies[l].host_id
          /\ lobbies'[l].map_name = lobbies[l].map_name
          /\ lobbies'[l].start_at = lobbies[l].start_at
          /\ lobbies'[l].channel_id = lobbies[l].channel_id
          /\ lobbies'[l].forum_post_id = lobbies[l].forum_post_id
          /\ lobbies'[l] = [lobbies[l] EXCEPT !.status = lobbies'[l].status]
      ]_vars

\* A lobby created with capacity 2 has been cancelled by a reset, which is
\* editing the messages; the row still holds what the creation stored.
C34_Witness ==
    \E l \in DOMAIN lobbies, tk \in InFlight :
        /\ tk.kind = "reset" /\ tk.pc = "reset_edit"
        /\ lobbies[l].status = "cancelled"
        /\ lobbies[l].capacity = MaxModelCapacity
        /\ lobbies[l].host_id \in Hosts
        /\ lobbies[l].map_name \in MAPS
        /\ lobbies[l].start_at = StartAt
        /\ lobbies[l].channel_id = TextChannel
        /\ lobbies[l].forum_post_id = NoForumPost

\* C35: every step of on_ready (both calls of restore_lobbies_on_start with
\* their lookups and edits, the panel installation and the panel update)
\* leaves every lobbies row and every membership row as it is.
C35_ReconciliationReadOnly ==
    [][(\E tk \in InFlight :
           \/ on_ready(tk)
           \/ restore_lobbies_on_start(tk)
           \/ restore_edit(tk)
           \/ on_ready_again(tk)
           \/ PanelFind(tk)
           \/ PanelEdit(tk))
          => (lobbies' = lobbies /\ lobby_members' = lobby_members)]_vars

\* on_ready has returned after both passes: of two lobbies with members, a
\* closed one has had its message edited and an open one, whose message is
\* gone, is listed in the panel.
C35_Witness ==
    /\ NoTaskInFlight
    /\ \E l1, l2 \in DOMAIN lobbies :
          /\ lobbies[l1].status = "closed" /\ db_count_members(lobby_members, l1) = 2
          /\ l1 \in watch.edited
          /\ lobbies[l2].status = "open" /\ db_count_members(lobby_members, l2) = 1
          /\ l2 \notin DOMAIN messages /\ l2 \in watch.failed
          /\ Listed(panel) = {<<l2, 1, lobbies[l2].capacity>>}

\* C36: a press of join, leave, close, start or cancel on a message that has
\* no lobbies row, and a confirm of a selection whose lobby has no row, is
\* rejected as "no lobby" and changes neither table, nor does the rejection;
\* and at the end of every step each membership row belongs to a lobby that
\* has a row.
C36_NoRowRejected ==
    [][/\ \A l \in LobbyIds \ DOMAIN lobbies : \A u \in Users :
             /\ join_button(l, u)
                   => StoreUnchanged /\ StartedWith(Rejected("join", "nolobby"))
             /\ leave_button(l, u)
                   => StoreUnchanged /\ StartedWith(Rejected("leave", "nolobby"))
             /\ close_button(l, u)
                   => StoreUnchanged /\ StartedWith(Rejected("close", "nolobby"))
             /\ start_button(l, u)
                   => StoreUnchanged /\ StartedWith(Rejected("start", "nolobby"))
             /\ cancel_button(l, u)
                   => StoreUnchanged /\ StartedWith(Rejected("cancel", "nolobby"))
       /\ \A v \in selections :
             (confirm(v) /\ v.lobby_message_id \notin DOMAIN lobbies)
                 => StoreUnchanged /\ StartedWith(Rejected("confirm", "nolobby"))
       /\ \A tk \in InFlight : (Reject(tk) /\ tk.result = "nolobby") => StoreUnchanged
       /\ \A m \in lobby_members' : m.lobby_message_id \in DOMAIN lobbies'
      ]_vars

\* The lobby message has been sent with its buttons and the creation has not
\* stored the row yet; a join or a cancel pressed meanwhile has been
\* rejected, and the store is empty.
C36_Witness ==
    /\ \E tk \in InFlight : tk.kind = "create" /\ tk.pc = "create_row"
    /\ Rejected("join", "nolobby") \in InFlight \/ Rejected("cancel", "nolobby") \in InFlight
    /\ \E l \in DOMAIN messages : messages[l].view /\ l \notin DOMAIN lobbies
    /\ lobbies = <<>>
    /\ lobby_members = {}

\* C37: a leave pressed on an open lobby by a user without a membership row
\* in it is rejected as "not a member", and neither the press nor the
\* rejection changes a membership row or a status; a leave pressed by a
\* member is accepted, and its removal deletes the rows of that user in that
\* lobby and no other row, and changes no status.
C37_LeaveRemovesOwnRow ==
    [][/\ \A l \in DOMAIN lobbies, u \in Users :
             (leave_button(l, u) /\ lobbies[l].status = "open")
                 => /\ StoreUnchanged
                    /\ IF \E m \in lobby_members : m.lobby_message_id = l /\ m.user_id = u
                       THEN StartedWith(Task("leave", "leave_remove", l, u, lobbies[l]))
                       ELSE StartedWith(Rejected("leave", "notmember"))
       /\ \A tk \in InFlight :
             /\ (Reject(tk) /\ tk.kind = "leave") => StoreUnchanged
             /\ leave_remove(tk)
                   => /\ lobby_members \ lobby_members'
                            = {m \in lobby_members :
                                  /\ m.lobby_message_id = tk.lobby.lobby_message_id
                                  /\ m.user_id = tk.uid}
                      /\ lobby_members' \subseteq lobby_members
                      /\ lobbies' = lobbies
      ]_vars

\* On an open lobby with one member, the member's leave has been accepted
\* and is suspended before its removal, and the leave of a user who is not a
\* member has been rejected; the member's row is still there.
C37_Witness ==
    \E l \in DOMAIN lobbies, tk \in InFlight :
        /\ lobbies[l].status = "open"
        /\ tk.kind = "leave" /\ tk.pc = "leave_remove" /\ tk.lobby.lobby_message_id = l
        /\ db_is_member(lobby_members, l, tk.uid)
        /\ db_count_members(lobby_members, l) = 1
        /\ Rejected("leave", "notmember") \in InFlight

\* C38: the step in which a reset reads and writes the store touches no
\* message and no panel; on a store without lobbies row it changes nothing
\* and the reset goes on to the panel update alone; on a store with rows it
\* deletes every membership row and sets the status of every lobby to
\* cancelled in that one step, no other handler running in between, and only
\* then goes on to the messages of the lobbies it listed; no later step of
\* the reset writes the store.
C38_ResetWritesAtOnce ==
    [][\A tk \in InFlight :
          /\ reset_all_lobbies(tk)
                => /\ messages' = messages
                   /\ panel' = panel
                   /\ IF DOMAIN lobbies = {}
                      THEN /\ StoreUnchanged
                           /\ WentOnWith(tk, [NoTask EXCEPT !.kind = "reset",
                                                            !.pc = "panel_find"])
                      ELSE /\ lobby_members' = {}
                           /\ DOMAIN lobbies' = DOMAIN lobbies
                           /\ \A l \in DOMAIN lobbies : lobbies'[l].status = "cancelled"
                           /\ \E t \in BagToSet(tasks') :
                                 /\ WentOnWith(tk, t)
                                 /\ t.kind = "reset" /\ t.pc = "reset_edit"
                                 /\ {r.lobby_message_id : r \in t.pending} = DOMAIN lobbies
          /\ (/\ tk.kind = "reset"
              /\ \/ \E lobby \in tk.pending : update_single_lobby(tk, lobby)
                 \/ PanelFind(tk)
                 \/ PanelEdit(tk))
                => StoreUnchanged
      ]_vars

\* A reset has written the store while a join that had passed its guard was
\* suspended: the lobby is cancelled and has no member, its message still
\* carries the buttons, and the reset is about to edit it.
C38_Witness ==
    \E l \in DOMAIN lobbies, tk, t2 \in InFlight :
        /\ tk.kind = "reset" /\ tk.pc = "reset_edit"
        /\ l \in {r.lobby_message_id : r \in tk.pending}
        /\ lobbies[l].status = "cancelled"
        /\ lobby_members = {}
        /\ messages[l].view
        /\ t2.pc = "join_add" /\ t2.lobby.status = "open"

====
